---- MODULE Spec2Model ----
(***************************************************************************)
(* Model of tools/scrape.py: the per-item post scraper.                    *)
(*                                                                         *)
(* Text is modelled as a sequence of one-character strings, so that        *)
(* slugify, strip, endswith and the file-name format are computed as the   *)
(* code computes them.  A date string is a pair <<layout, day>>; a URL is  *)
(* a pair <<scheme, rest>>.  The store is the output directory: a function *)
(* from file name to the JSON document the file holds.                     *)
(***************************************************************************)
EXTENDS Integers, Sequences, FiniteSets, TLC

----------------------------------------------------------------------------
(* Bounds of the model.                                                    *)

MaxRuns == 2
MaxDate == 2
MaxLimit == 2

----------------------------------------------------------------------------
(* Text helpers.                                                           *)

Letters == <<"a","b","c","d","e","f","g","h","i","j","k","l","m",
             "n","o","p","q","r","s","t","u","v","w","x","y","z">>
Uppers == <<"A","B","C","D","E","F","G","H","I","J","K","L","M",
            "N","O","P","Q","R","S","T","U","V","W","X","Y","Z">>
Digits == <<"0","1","2","3","4","5","6","7","8","9">>

Range(s) == {s[i] : i \in DOMAIN s}

IsDigit(c) == c \in Range(Digits)

Whitespace == {" ", "\t", "\n"}

\* str.lower() on one character
LowerChar(c) ==
    IF c \in Range(Uppers)
    THEN Letters[CHOOSE i \in DOMAIN Uppers : Uppers[i] = c]
    ELSE c

\* str.lower()
Lower(s) == [i \in DOMAIN s |-> LowerChar(s[i])]

\* the characters of cs removed at the left end
RECURSIVE LStrip(_, _)
LStrip(s, cs) ==
    IF s # <<>> /\ Head(s) \in cs THEN LStrip(Tail(s), cs) ELSE s

\* the characters of cs removed at the right end
RECURSIVE RStrip(_, _)
RStrip(s, cs) ==
    IF s # <<>> /\ s[Len(s)] \in cs
    THEN RStrip(SubSeq(s, 1, Len(s) - 1), cs)
    ELSE s

\* str.strip(): whitespace removed at both ends
Strip(s) == RStrip(LStrip(s, Whitespace), Whitespace)

\* str.strip("-")
StripHyphens(s) == RStrip(LStrip(s, {"-"}), {"-"})

\* str.endswith
EndsWith(s, p) ==
    Len(p) <= Len(s) /\ SubSeq(s, Len(s) - Len(p) + 1, Len(s)) = p

\* "p in s" for strings
Contains(s, p) ==
    \E i \in 0..(Len(s) - Len(p)) : SubSeq(s, i + 1, i + Len(p)) = p

\* s[:n]
Prefix(s, n) == SubSeq(s, 1, IF Len(s) < n THEN Len(s) ELSE n)

\* re.sub(r"[cs]+", "-", s): every maximal run of characters of cs becomes
\* one hyphen
RECURSIVE SquashRuns(_, _)
SquashRuns(s, cs) ==
    IF s = <<>> THEN <<>>
    ELSE IF Head(s) \in cs
         THEN <<"-">> \o SquashRuns(LStrip(s, cs), cs)
         ELSE <<Head(s)>> \o SquashRuns(Tail(s), cs)

IsSlugChar(c) == c \in Range(Letters) \/ IsDigit(c) \/ c = "-"

\* re.sub(r"[^a-z0-9-]", "", s)
KeepSlugChars(s) == SelectSeq(s, IsSlugChar)

SLUG_MAX_LEN == 48

POST == <<"p","o","s","t">>

\* slugify(s, max_len)
slugify(s, max_len) ==
    LET s1 == Lower(s)
        s2 == SquashRuns(s1, Whitespace \cup {"_"})
        s3 == KeepSlugChars(s2)
        s4 == StripHyphens(SquashRuns(s3, {"-"}))
        s5 == Prefix(s4, max_len)
    IN  IF s5 = <<>> THEN POST ELSE s5

\* make_slug(candidate, fallback="post")
make_slug(candidate) ==
    LET s == slugify(candidate, SLUG_MAX_LEN)
    IN  IF s = <<>> THEN slugify(POST, SLUG_MAX_LEN) ELSE s

----------------------------------------------------------------------------
(* Dates.  A date string is <<layout, day>>: layout "iso" is YYYY-MM-DD,   *)
(* "slash" is YYYY/MM/DD, "junk" is text holding no date, "empty" is "".   *)
(* NoDate stands for Python's None.  All days lie in one month, so the     *)
(* string order of ISO dates is the order of their days.                   *)

Days == 1..MaxDate

IsoDate(d) == <<"iso", d>>

EmptyDate == <<"empty", 0>>

NoDate == <<"none", 0>>

\* truthiness of an optional date string
DateTruthy(x) == x[1] \notin {"empty", "none"}

\* a or b, for optional date strings
DateOr(a, b) == IF DateTruthy(a) THEN a ELSE b

\* ISO_DATE_RE.match(str(x))
ISO_DATE_RE(x) == x[1] = "iso"

\* parse_date(s)
parse_date(s) ==
    IF ~DateTruthy(s) THEN NoDate
    ELSE IF s[1] \in {"iso", "slash"} THEN IsoDate(s[2])
    ELSE NoDate

\* DateLess with the comparison turned round
DateLess_reversed(a, b) == a[2] > b[2]

\* a < b on two ISO date strings
DateLess(a, b) == a[2] < b[2]

\* the text of an ISO date, as it appears in a file name
DateChars(x) ==
    <<"2","0","2","5","-","1","1","-">>
        \o <<Digits[(x[2] \div 10) + 1], Digits[(x[2] % 10) + 1]>>

\* today()
today(day) == IsoDate(day)

----------------------------------------------------------------------------
(* URLs.  A URL is <<scheme, rest>>; EmptyUrl is "" and also stands for    *)
(* None, which every caller turns into "" with "or".                       *)

EmptyUrl == <<"", "">>

UrlOr(a, b) == IF a # EmptyUrl THEN a ELSE b

\* HTTPS_RE.match(str(u))
HTTPS_RE(u) == u[1] = "https"

\* to_https(url) or ""
to_https(url) ==
    IF url = EmptyUrl THEN EmptyUrl
    ELSE IF url[1] \notin {"http", "https", "httpx"} THEN EmptyUrl
    ELSE LET scheme == IF url[1] \in {"http", "https"} THEN "https" ELSE url[1]
             rebuilt == <<scheme, url[2]>>
         IN  IF HTTPS_RE(rebuilt) THEN rebuilt ELSE EmptyUrl

----------------------------------------------------------------------------
(* Source configuration (class Source).  A mapping is a record of the      *)
(* values it may hold, with "has" the set of keys that are present.        *)

NoMapping == [has |-> {}, company |-> <<>>, employment_type |-> <<>>,
              tags |-> <<>>]

\* mapping.get(k, default)
mget(mapping, k, default) == IF k \in mapping.has THEN mapping[k] ELSE default

\* "acme-jobs": a structured-API source of job posts, category left to the
\* heuristic, with a company override
SrcJobs ==
    [id |-> <<"a","c","m","e","-","j","o","b","s">>, type |-> "api",
     url |-> <<"https", "acme">>,
     mapping |-> [NoMapping EXCEPT !.has = {"company"},
                                   !.company = <<"A","C","M","E">>],
     sourceName |-> <<"A","C","M","E">>, postType |-> "", canRaise |-> FALSE]

\* "old": a source whose kind is none of rss, html, api
SrcOld ==
    [id |-> <<"o","l","d">>, type |-> "xml", url |-> <<"https", "old">>,
     mapping |-> NoMapping, sourceName |-> <<>>, postType |-> "",
     canRaise |-> FALSE]

\* "club": a structured-API source of activity posts with a company
\* override, served from a URL that cannot be coerced to https
SrcClub ==
    [id |-> <<"c","l","u","b">>, type |-> "api", url |-> <<"ftp", "club">>,
     mapping |-> [NoMapping EXCEPT !.has = {"company"},
                                   !.company = <<"C","L","U","B">>],
     sourceName |-> <<>>, postType |-> "activity", canRaise |-> FALSE]

\* "campus": a markup source with no category (notice by default); its
\* selectors can make the markup parser raise
SrcCampus ==
    [id |-> <<"c","a","m","p","u","s">>, type |-> "html",
     url |-> <<"http", "campus">>, mapping |-> NoMapping,
     sourceName |-> <<>>, postType |-> "", canRaise |-> TRUE]

\* the configured sources, in order (load_sources)
Sources == <<SrcJobs, SrcOld, SrcClub, SrcCampus>>

----------------------------------------------------------------------------
(* Raw records.  Every field is looked up with r.get(k) or a default, so   *)
(* an absent key, None and "" are one case: the falsy value of the field.  *)

BlankRecord ==
    [title |-> <<>>, name |-> <<>>, link |-> EmptyUrl, url |-> EmptyUrl,
     deadline |-> EmptyDate, date |-> EmptyDate, closing |-> EmptyDate,
     date_published |-> EmptyDate, published |-> EmptyDate,
     created |-> EmptyDate, subtitle |-> <<>>, summary |-> <<>>,
     tags |-> <<>>, company |-> <<>>, org |-> <<>>, organization |-> <<>>,
     role |-> <<>>, location |-> <<>>, employment_type |-> <<>>,
     type |-> <<>>, apply_url |-> EmptyUrl, payload |-> {}]

\* a or b, for strings
StrOr(a, b) == IF a # <<>> THEN a ELSE b

\* values of a payload: text, a URL, None, or an empty list
Text(s) == <<"str", s>>

Url(u) == <<"url", u>>

None == <<"none", <<>>>>

EmptyList == <<"list", <<>>>>

----------------------------------------------------------------------------
(* Normalization and validation.                                           *)

PostTypes == {"scholarship", "activity", "job", "grad", "event", "notice"}

\* choose_type(src)
choose_type(src) ==
    IF src.postType # "" THEN src.postType
    ELSE IF Contains(Lower(src.id), <<"j","o","b">>) THEN "job"
    ELSE "notice"

\* the decimal digits of n
RECURSIVE DecChars(_)
DecChars(n) ==
    IF n < 10 THEN <<Digits[n + 1]>>
    ELSE DecChars(n \div 10) \o <<Digits[(n % 10) + 1]>>

\* f"{n:04d}"
Pad4(n) ==
    LET d == DecChars(n)
    IN  [i \in 1..(IF Len(d) < 4 THEN 4 - Len(d) ELSE 0) |-> "0"] \o d

\* build_id that leaves the sequence number out
build_id_unnumbered(date_published, slug, seq) ==
    <<"i","m","e","-">> \o DateChars(date_published) \o <<"-">> \o Pad4(1)

\* build_id(date_published, slug, seq)
build_id(date_published, slug, seq) ==
    <<"i","m","e","-">> \o DateChars(date_published) \o <<"-">> \o Pad4(seq)

\* the payload of normalize_record, by post category
BuildPayload(src, r, title, link) ==
    LET post_type == choose_type(src)
    IN  IF post_type = "job" THEN
            {<<"company", Text(mget(src.mapping, "company",
                                    StrOr(r.company, r.org)))>>,
             <<"role", Text(StrOr(r.role, title))>>,
             <<"location", Text(r.location)>>,
             <<"employment_type",
               Text(mget(src.mapping, "employment_type",
                         StrOr(r.employment_type, r.type)))>>,
             <<"salary_min", None>>,
             <<"salary_max", None>>,
             <<"apply_url",
               Url(UrlOr(to_https(UrlOr(r.apply_url, link)), link))>>,
             <<"requirements", EmptyList>>,
             <<"nice_to_have", EmptyList>>}
        ELSE IF post_type = "scholarship" THEN
            {<<"amount_max", None>>, <<"eligible_years", EmptyList>>,
             <<"gpa_min", None>>, <<"income_bracket_max", None>>,
             <<"major", None>>, <<"region", None>>,
             <<"requirements", EmptyList>>, <<"documents", EmptyList>>,
             <<"apply_steps", EmptyList>>, <<"notes", EmptyList>>}
        ELSE IF post_type = "activity" THEN
            {<<"organization",
               Text(StrOr(StrOr(r.organization, r.company),
                          mget(src.mapping, "company", <<>>)))>>,
             <<"period", Text(<<>>)>>,
             <<"location", Text(r.location)>>,
             <<"benefits", EmptyList>>, <<"requirements", EmptyList>>,
             <<"selection", EmptyList>>, <<"contacts", EmptyList>>}
        ELSE IF post_type = "grad" THEN
            {<<"university", Text(r.org)>>,
             <<"program", Text(title)>>,
             <<"round", Text(<<>>)>>,
             <<"tuition_per_semester", None>>, <<"stipend", None>>,
             <<"contact", Text(<<>>)>>}
        ELSE r.payload

\* a document that stands for "no document"
NoDoc ==
    [id |-> <<>>, type |-> "", title |-> <<>>, subtitle |-> <<>>,
     tags |-> <<>>, date_published |-> EmptyDate, deadline |-> EmptyDate,
     last_checked_at |-> EmptyDate, source_name |-> <<>>,
     source_url |-> EmptyUrl, payload |-> {}]

Ok(doc, slug) == [ok |-> TRUE, kind |-> "", doc |-> doc, slug |-> slug]

Err(kind) == [ok |-> FALSE, kind |-> kind, doc |-> NoDoc, slug |-> <<>>]

\* validate_common whose verdict is ignored
validate_common_ignored(doc) == TRUE

\* validate_common(doc): TRUE when the document passes every check
validate_common(doc) ==
    \* COMMON_REQUIRED: present, and not blank when textual (payload is a
    \* mapping, so it is only required to be present)
    /\ doc.id # <<>> /\ Strip(doc.id) # <<>>
    /\ doc.type # ""
    /\ Strip(doc.title) # <<>>
    /\ doc.date_published # EmptyDate
    /\ doc.last_checked_at # EmptyDate
    /\ Strip(doc.source_name) # <<>>
    /\ doc.source_url # EmptyUrl
    \* dates
    /\ ISO_DATE_RE(doc.date_published)
    /\ ISO_DATE_RE(doc.last_checked_at)
    /\ (doc.deadline # EmptyDate => ISO_DATE_RE(doc.deadline))
    \* URLs
    /\ HTTPS_RE(doc.source_url)
    \* type enum
    /\ doc.type \in PostTypes

\* the publish date normalize_record resolves for a record
ResolvePublished(r, now) ==
    LET raw == DateOr(DateOr(DateOr(r.date_published, r.published),
                             r.created), now)
    IN  DateOr(parse_date(raw), now)

\* normalize_record(src, r, now, seq, since); since is NoDate when unset
normalize_record(src, r, now, seq, since) ==
    LET title == Strip(StrOr(r.title, r.name))
        link0 == to_https(UrlOr(UrlOr(r.link, r.url), src.url))
        slug == make_slug(title)
        link == IF link0 = EmptyUrl THEN to_https(src.url) ELSE link0
        raw_deadline == DateOr(DateOr(r.deadline, r.date), r.closing)
        deadline == DateOr(parse_date(raw_deadline), EmptyDate)
        date_pub == ResolvePublished(r, now)
        subtitle == Strip(StrOr(r.subtitle, r.summary))
        slug_final == make_slug(StrOr(slug, title))
        doc == [id |-> build_id(date_pub, slug_final, seq),
                type |-> choose_type(src),
                title |-> title,
                subtitle |-> subtitle,
                tags |-> mget(src.mapping, "tags", r.tags),
                date_published |-> date_pub,
                deadline |-> deadline,
                last_checked_at |-> now,
                source_name |-> StrOr(src.sourceName, src.id),
                source_url |-> link,
                payload |-> BuildPayload(src, r, title, link)]
    IN  IF title = <<>> THEN Err("Normalize")
        ELSE IF DateTruthy(since) /\ DateLess(date_pub, since)
             THEN Err("SinceFilter")
        ELSE IF ~validate_common(doc) THEN Err("Validate")
        ELSE Ok(doc, slug_final)

----------------------------------------------------------------------------
(* What the sources return.  A feed and a markup page give records with a  *)
(* title, a link and a date only; a structured API gives any mapping.      *)

RecAB ==
    [BlankRecord EXCEPT !.title = <<"a"," ","b">>,
                        !.company = <<"R","C">>,
                        !.date_published = IsoDate(1)]

RecB ==
    [BlankRecord EXCEPT !.title = <<"B">>, !.link = <<"http", "b">>,
                        !.date = <<"slash", 2>>]

RecBlank ==
    [BlankRecord EXCEPT !.title = <<" ">>, !.date_published = IsoDate(1)]

RecOrg ==
    [BlankRecord EXCEPT !.title = <<"A","_","b","!">>,
                        !.url = <<"https", "ab">>,
                        !.organization = <<"R","O">>,
                        !.date = <<"junk", 0>>]

RecNoLink == [BlankRecord EXCEPT !.title = <<"b">>, !.date = IsoDate(3)]

\* the record lists the parser can return for a source
Parsed(src) ==
    IF src = SrcJobs THEN {<<RecAB, RecB>>, <<RecBlank, RecB>>}
    ELSE IF src = SrcClub THEN {<<RecAB, RecOrg, RecB>>}
    ELSE {<<RecNoLink>>}

----------------------------------------------------------------------------
(* The output directory.                                                   *)

JSON == <<".","j","s","o","n">>

\* f"{date_published}-{slug}.json"
FileName(date_published, slug) ==
    DateChars(date_published) \o <<"-">> \o slug \o JSON

\* re.match(r"^\d{4}-\d{2}-\d{2}-", name)
DatePrefixed(name) ==
    /\ Len(name) >= 11
    /\ \A i \in {1, 2, 3, 4, 6, 7, 9, 10} : IsDigit(name[i])
    /\ \A i \in {5, 8, 11} : name[i] = "-"

\* find_existing that compares the whole name, date included, with the suffix
find_existing_exact(dir, slug) ==
    {name \in DOMAIN dir : name = <<"-">> \o slug \o JSON}

\* find_existing(out_dir, slug): the names os.listdir can yield first among
\* those that match; the empty set when the function returns None
find_existing(dir, slug) ==
    {name \in DOMAIN dir :
        EndsWith(name, <<"-">> \o slug \o JSON) /\ DatePrefixed(name)}

\* MergeUpdate that takes the new document's deadline even when it is empty
MergeUpdate_deadline(cur, doc, now) ==
    [cur EXCEPT !.last_checked_at = now, !.deadline = doc.deadline]

\* the merge-update of main: cur is the stored document, doc the new one
MergeUpdate(cur, doc, now) ==
    [cur EXCEPT !.last_checked_at = now,
                !.deadline = IF DateTruthy(doc.deadline)
                             THEN doc.deadline ELSE @]

\* write_json(path, obj) on the directory
write_json(dir, path, obj) ==
    [n \in DOMAIN dir \cup {path} |-> IF n = path THEN obj ELSE dir[n]]

\* CapReached that lets one item too many through
CapReached_late(total, lim) == total > lim

\* "total_written >= args.limit"
CapReached(total, lim) == total >= lim

\* the value main returns after the loop
ExitStatus(any_fail) == IF any_fail THEN 2 ELSE 0

----------------------------------------------------------------------------
(* State.                                                                  *)

VARIABLES
    files,             \* the output directory: file name -> document
    sink,              \* the lines this run appended to the deadletter file
    pc,                \* idle, source, record, done, aborted, crashed
    run,               \* number of runs started
    now,               \* today, as a day number
    since,             \* --since, parsed: a date string or NoDate
    limit,             \* --limit
    max_per_source,    \* --max-per-source
    dry_run,           \* --dry-run
    si,                \* index of the source the outer loop is at
    recs,              \* records of the current source
    ri,                \* index of the record the inner loop is at
    seq,               \* id sequence counter
    brand_new,         \* history: files this run wrote as brand new
    total_written,     \* processed items
    any_partial_fail,  \* the partial-failure flag
    exit,              \* process exit status; -1 while running
    kinds,             \* history: outcome kinds seen in this run
    fetched,           \* history: sources fetched in this run
    last,              \* history: what the last step did
    feed,              \* history: what each source returned in this run
    replay,            \* every run repeats the first run's inputs
    prev               \* history: the end of the previous run

vars == <<files, sink, pc, run, now, since, limit, max_per_source, dry_run,
          si, recs, ri, seq, total_written, any_partial_fail, exit, kinds,
          fetched, last, feed, replay, prev, brand_new>>

params == <<since, limit, max_per_source, dry_run>>

loop == <<si, recs, ri>>

NoFeed == [kind |-> "any", recs |-> <<>>]

NoLast == [op |-> "none", slug |-> <<>>, path |-> <<>>, written |-> FALSE]

Step(op, slug, path, written) ==
    [op |-> op, slug |-> slug, path |-> path, written |-> written]

EmptyDir == [n \in {} |-> NoDoc]

NoPrev == [valid |-> FALSE, files |-> EmptyDir, fault |-> FALSE, now |-> 0]

InitRest ==
    /\ sink = <<>>
    /\ pc = "idle"
    /\ run = 0
    /\ now = 1
    /\ since = NoDate
    /\ limit = 0
    /\ max_per_source = 1
    /\ dry_run = FALSE
    /\ si = 1
    /\ recs = <<>>
    /\ ri = 1
    /\ seq = 1
    /\ brand_new = {}
    /\ total_written = 0
    /\ any_partial_fail = FALSE
    /\ exit = -1
    /\ kinds = {}
    /\ fetched = {}
    /\ last = NoLast
    /\ feed = [i \in DOMAIN Sources |-> NoFeed]
    /\ prev = NoPrev

\* the output directory is empty before the first run
Init == InitRest /\ files = EmptyDir /\ replay = FALSE

----------------------------------------------------------------------------
(* Starting a run: main up to the loop over the sources.                   *)

SinceArgs == {EmptyDate, IsoDate(2), <<"junk", 0>>}

MaxPerSourceArgs == {2}

Ended == pc \in {"idle", "done", "aborted", "crashed"}

\* append_jsonl(deadletter, {"source": source, "kind": kind, ...})
Logged(source, kind) == Append(sink, [source |-> source, kind |-> kind])

\* the inputs of a run: free in the first run and whenever runs are
\* independent, repeated otherwise
SameInputs == replay /\ run >= 1

Snapshot ==
    IF replay
    THEN [valid |-> pc = "done", files |-> files,
          fault |-> "WriteError" \in kinds, now |-> now]
    ELSE prev

\* today() can only move forward from one run to the next
Clock(day) == day \in now..MaxDate

\* --since given and not YYYY-MM-DD: return 3
StartBadSince ==
    /\ Ended /\ run < MaxRuns
    /\ \E day \in Days, arg \in SinceArgs :
        /\ Clock(day)
        /\ IF SameInputs THEN arg = since ELSE TRUE
        /\ DateTruthy(arg) /\ ~ISO_DATE_RE(arg)
        /\ now' = day
        /\ since' = arg
    /\ pc' = "aborted"
    /\ exit' = 3
    /\ run' = run + 1
    /\ kinds' = {}
    /\ brand_new' = {}
    /\ fetched' = {}
    /\ last' = NoLast
    /\ prev' = Snapshot
    /\ sink' = <<>>
    /\ UNCHANGED <<files, limit, max_per_source, dry_run, loop, seq,
                   total_written, any_partial_fail, feed, replay>>

\* load_sources fails (ConfigMissing, ConfigInvalid): log it and return 3
StartBadConfig ==
    /\ Ended /\ run < MaxRuns
    /\ ~SameInputs
    /\ \E day \in Days, arg \in SinceArgs,
          kind \in {"ConfigMissing", "ConfigInvalid"} :
        /\ Clock(day)
        /\ ~DateTruthy(arg) \/ ISO_DATE_RE(arg)
        /\ now' = day
        /\ since' = IF DateTruthy(arg) THEN arg ELSE NoDate
        /\ sink' = <<[source |-> <<>>, kind |-> kind]>>
    /\ pc' = "aborted"
    /\ exit' = 3
    /\ run' = run + 1
    /\ kinds' = {}
    /\ brand_new' = {}
    /\ fetched' = {}
    /\ last' = NoLast
    /\ prev' = Snapshot
    /\ UNCHANGED <<files, limit, max_per_source, dry_run, loop, seq,
                   total_written, any_partial_fail, feed, replay>>

\* parameters and configuration are good: seq = 1, total_written = 0,
\* any_partial_fail = False, and the loop starts at the first source
StartRun ==
    /\ Ended /\ run < MaxRuns
    /\ \E day \in Days, arg \in SinceArgs, lim \in 0..MaxLimit,
          mps \in MaxPerSourceArgs, dry \in BOOLEAN :
        /\ Clock(day)
        /\ ~DateTruthy(arg) \/ ISO_DATE_RE(arg)
        /\ LET given == IF DateTruthy(arg) THEN arg ELSE NoDate
           IN  IF SameInputs
               THEN <<given, lim, mps, dry>> = params
               ELSE TRUE
        /\ now' = day
        /\ since' = IF DateTruthy(arg) THEN arg ELSE NoDate
        /\ limit' = lim
        /\ max_per_source' = mps
        /\ dry_run' = dry
    /\ pc' = "source"
    /\ exit' = -1
    /\ run' = run + 1
    /\ si' = 1
    /\ recs' = <<>>
    /\ ri' = 1
    /\ seq' = 1
    /\ total_written' = 0
    /\ any_partial_fail' = FALSE
    /\ kinds' = {}
    /\ brand_new' = {}
    /\ fetched' = {}
    /\ last' = NoLast
    /\ prev' = Snapshot
    /\ feed' = IF SameInputs THEN feed ELSE [i \in DOMAIN Sources |-> NoFeed]
    /\ sink' = <<>>
    /\ UNCHANGED <<files, replay>>

----------------------------------------------------------------------------
(* The loop over the sources: collect_from_source and its caller.          *)

AtSource == pc = "source" /\ si <= Len(Sources)

\* "if total_written >= args.limit: break", or the sources are exhausted:
\* return 2 or 0
Finish ==
    /\ pc = "source"
    /\ si > Len(Sources) \/ CapReached(total_written, limit)
    /\ pc' = "done"
    /\ exit' = ExitStatus(any_partial_fail)
    /\ last' = Step("finish", <<>>, <<>>, FALSE)
    /\ UNCHANGED brand_new
    /\ UNCHANGED <<files, sink, run, now, params, loop, seq, total_written,
                   any_partial_fail, kinds, fetched, feed, replay, prev>>

\* what the source may return now: anything, or what it returned before
Returns(outcome) ==
    /\ feed[si].kind # "any" => outcome = feed[si]
    /\ feed' = IF replay THEN [feed EXCEPT ![si] = outcome] ELSE feed

\* the source is skipped with a failure record: next source
SkipSource(kind) ==
    /\ sink' = Logged(Sources[si].id, kind)
    /\ any_partial_fail' = TRUE
    /\ kinds' = kinds \cup {kind}
    /\ fetched' = fetched \cup {si}
    /\ si' = si + 1
    /\ last' = Step(kind, <<>>, <<>>, FALSE)
    /\ UNCHANGED brand_new
    /\ UNCHANGED <<files, pc, run, now, params, recs, ri, seq, total_written,
                   exit, replay, prev>>

\* fetch fails: FetchError, src_err = 1
FetchFail ==
    /\ AtSource /\ ~CapReached(total_written, limit)
    /\ Returns([kind |-> "fail", recs |-> <<>>])
    /\ SkipSource("FetchError")

\* the source's kind is not rss, html or api: UnsupportedSource, src_err = 1
Unsupported ==
    /\ AtSource /\ ~CapReached(total_written, limit)
    /\ Sources[si].type \notin {"rss", "html", "api"}
    /\ Returns([kind |-> "ok", recs |-> <<>>])
    /\ SkipSource("UnsupportedSource")

\* collect_from_source raises: SourceError, continue
SourceRaises ==
    /\ AtSource /\ ~CapReached(total_written, limit)
    /\ Sources[si].canRaise
    /\ Returns([kind |-> "raise", recs |-> <<>>])
    /\ SkipSource("SourceError")

\* fetch and parse succeed: recs[:max_items], src_err = 0
FetchOk ==
    /\ AtSource /\ ~CapReached(total_written, limit)
    /\ Sources[si].type \in {"rss", "html", "api"}
    /\ \E parsed \in Parsed(Sources[si]) :
        /\ Returns([kind |-> "ok", recs |-> parsed])
        /\ recs' = Prefix(parsed, max_per_source)
    /\ ri' = 1
    /\ pc' = "record"
    /\ fetched' = fetched \cup {si}
    /\ last' = Step("fetch", <<>>, <<>>, FALSE)
    /\ UNCHANGED brand_new
    /\ UNCHANGED <<files, sink, run, now, params, si, seq, total_written,
                   any_partial_fail, exit, kinds, replay, prev>>

----------------------------------------------------------------------------
(* The loop over the records of one source.                                *)

AtRecord ==
    pc = "record" /\ ri <= Len(recs) /\ ~CapReached(total_written, limit)

\* normalize_record on the record the loop is at
Norm == normalize_record(Sources[si], recs[ri], today(now), seq, since)

\* the records are exhausted, or "if total_written >= args.limit: break":
\* back to the loop over the sources
RecordsEnd ==
    /\ pc = "record"
    /\ ri > Len(recs) \/ CapReached(total_written, limit)
    /\ pc' = "source"
    /\ si' = si + 1
    /\ last' = Step("next", <<>>, <<>>, FALSE)
    /\ UNCHANGED brand_new
    /\ UNCHANGED <<files, sink, run, now, params, recs, ri, seq,
                   total_written, any_partial_fail, exit, kinds, fetched,
                   feed, replay, prev>>

\* normalize_record fails with SinceFilter: dropped, nothing logged
DropSilently ==
    /\ AtRecord
    /\ ~Norm.ok /\ Norm.kind = "SinceFilter"
    /\ ri' = ri + 1
    /\ kinds' = kinds \cup {"SinceFilter"}
    /\ last' = Step("SinceFilter", <<>>, <<>>, FALSE)
    /\ UNCHANGED brand_new
    /\ UNCHANGED <<files, sink, pc, run, now, params, si, recs, seq,
                   total_written, any_partial_fail, exit, fetched, feed,
                   replay, prev>>

\* normalize_record fails with Normalize or Validate: logged, dropped
DropLogged ==
    /\ AtRecord
    /\ ~Norm.ok /\ Norm.kind # "SinceFilter"
    /\ sink' = Logged(Sources[si].id, Norm.kind)
    /\ ri' = ri + 1
    /\ kinds' = kinds \cup {Norm.kind}
    /\ last' = Step(Norm.kind, <<>>, <<>>, FALSE)
    /\ UNCHANGED brand_new
    /\ UNCHANGED <<files, pc, run, now, params, si, recs, seq, total_written,
                   any_partial_fail, exit, fetched, feed, replay, prev>>

\* an existing file matches: merge-update it (not written when dry_run)
Update ==
    /\ AtRecord
    /\ Norm.ok
    /\ \E existing \in find_existing(files, Norm.slug) :
        /\ files' = IF dry_run THEN files
                    ELSE write_json(files, existing,
                             MergeUpdate(files[existing], Norm.doc,
                                         today(now)))
        /\ last' = Step("update", Norm.slug, existing, ~dry_run)
    /\ total_written' = total_written + 1
    /\ ri' = ri + 1
    /\ UNCHANGED brand_new
    /\ UNCHANGED <<sink, pc, run, now, params, si, recs, seq,
                   any_partial_fail, exit, kinds, fetched, feed, replay,
                   prev>>

\* reading or writing the existing file raises: WriteError, logged, dropped
UpdateFails ==
    /\ AtRecord
    /\ Norm.ok
    /\ \E existing \in find_existing(files, Norm.slug) :
        last' = Step("WriteError", Norm.slug, existing, FALSE)
    /\ sink' = Logged(Sources[si].id, "WriteError")
    /\ ri' = ri + 1
    /\ kinds' = kinds \cup {"WriteError"}
    /\ UNCHANGED brand_new
    /\ UNCHANGED <<files, pc, run, now, params, si, recs, seq, total_written,
                   any_partial_fail, exit, fetched, feed, replay, prev>>

\* no file matches: write_post_json (the path only when dry_run), then
\* seq += 1 and total_written += 1
WriteNew ==
    /\ AtRecord
    /\ Norm.ok
    /\ find_existing(files, Norm.slug) = {}
    /\ LET path == FileName(Norm.doc.date_published, Norm.slug)
       IN  /\ files' = IF dry_run THEN files
                       ELSE write_json(files, path, Norm.doc)
           /\ last' = Step("new", Norm.slug, path, ~dry_run)
           /\ brand_new' = IF dry_run THEN brand_new
                           ELSE brand_new \cup {path}
    /\ seq' = seq + 1
    /\ total_written' = total_written + 1
    /\ ri' = ri + 1
    /\ UNCHANGED <<sink, pc, run, now, params, si, recs, any_partial_fail,
                   exit, kinds, fetched, feed, replay, prev>>

\* no file matches and write_json raises: nothing catches it, the process
\* ends with a traceback and status 1
WriteNewRaises ==
    /\ AtRecord
    /\ Norm.ok
    /\ find_existing(files, Norm.slug) = {}
    /\ ~dry_run
    /\ pc' = "crashed"
    /\ exit' = 1
    /\ last' = Step("crash", Norm.slug,
                    FileName(Norm.doc.date_published, Norm.slug), FALSE)
    /\ UNCHANGED brand_new
    /\ UNCHANGED <<files, sink, run, now, params, loop, seq, total_written,
                   any_partial_fail, kinds, fetched, feed, replay, prev>>

----------------------------------------------------------------------------
(* Specifications.                                                         *)

Next ==
    \/ StartBadSince
    \/ StartBadConfig
    \/ StartRun
    \/ Finish
    \/ FetchFail
    \/ Unsupported
    \/ SourceRaises
    \/ FetchOk
    \/ RecordsEnd
    \/ DropSilently
    \/ DropLogged
    \/ Update
    \/ UpdateFails
    \/ WriteNew
    \/ WriteNewRaises

\* runs with independent inputs
Spec == Init /\ [][Next]_vars

\* a directory holding the one file an earlier run wrote for record r of
\* source src on the given day
StoreOf(src, r, day) ==
    LET n == normalize_record(src, r, today(day), 1, NoDate)
    IN  write_json(EmptyDir, FileName(n.doc.date_published, n.slug), n.doc)

\* directories earlier runs can have left behind
StartStores ==
    {EmptyDir, StoreOf(SrcJobs, RecB, 1), StoreOf(SrcCampus, RecNoLink, 1)}

\* runs that repeat the first run's parameters and source output, starting
\* from a directory earlier runs left behind
InitTwice == InitRest /\ files \in StartStores /\ replay = TRUE

SpecTwice == InitTwice /\ [][Next]_vars

----------------------------------------------------------------------------
(* Claims.                                                                 *)

Running == pc \in {"source", "record"}

\* failure kinds that are written to the failure sink
FailureKinds == {"FetchError", "UnsupportedSource", "SourceError",
                 "Normalize", "Validate", "WriteError"}

\* C1: a run that got past the parameter and configuration checks and
\* reached its end returns 2 when a source-level or record-level failure
\* occurred in it and 0 when none did; since-filter drops do not count.
C1_ExitReflectsFailures ==
    pc = "done" =>
        exit = (IF kinds \cap FailureKinds # {} THEN 2 ELSE 0)

\* the slug in a file name <date>-<slug>.json
SlugOfName(name) == SubSeq(name, 12, Len(name) - Len(JSON))

\* C4: a record is merged into an existing file only when that file is
\* named <date>-<slug>.json for the record's own slug.
C4_DedupIdentityIsSlug ==
    last.op = "update" => SlugOfName(last.path) = last.slug

\* the record the loop is at is resolved to a publish date before --since
BeforeSince ==
    /\ pc = "record" /\ ri <= Len(recs) /\ total_written < limit
    /\ DateTruthy(since)
    /\ ResolvePublished(recs[ri], today(now))[2] < since[2]

\* the step writes or updates no file, counts nothing and logs nothing
DroppedUnlogged ==
    /\ files' = files
    /\ sink' = sink
    /\ total_written' = total_written
    /\ seq' = seq

\* C5 as stated: with --since set, every record whose resolved publish
\* date is before it is dropped and nothing is appended to the failure
\* sink, whatever its other fields, an empty title included.
C5_SinceDropsEveryRecord ==
    [][BeforeSince => DroppedUnlogged]_vars

\* C5 as amended: with --since set, every record with a non-blank title
\* whose resolved publish date is before it is dropped and nothing is
\* appended to the failure sink.
C5_SinceDropsTitledRecords ==
    [][(BeforeSince /\ Strip(StrOr(recs[ri].title, recs[ri].name)) # <<>>)
          => DroppedUnlogged]_vars

\* C5 witness: a record was dropped by the since-filter
C5_Witness == last.op = "SinceFilter" /\ sink = <<>> /\ ri > 1

\* C7: every document normalize_record accepts has a non-empty payload.
C7_PayloadNeverEmpty ==
    (pc = "record" /\ ri <= Len(recs) /\ Norm.ok) => Norm.doc.payload # {}

\* C9: once collection has begun the run ends with status 0 or 2; status 3
\* is returned only before any source is fetched; there is no other end.
C9_RunAlwaysCompletes ==
    /\ exit \in {-1, 0, 2, 3}
    /\ exit = 3 => fetched = {}

\* the record the loop is at is accepted and matches a stored file
MatchesStored ==
    /\ pc = "record" /\ ri <= Len(recs) /\ total_written < limit
    /\ Norm.ok
    /\ find_existing(files, Norm.slug) # {}

\* file n is the only one that changes, and only in last_checked_at (the
\* run date) and deadline (the new one when it is not empty)
MergedInto(n) ==
    /\ DOMAIN files' = DOMAIN files
    /\ \A m \in DOMAIN files : m # n => files'[m] = files[m]
    /\ files'[n] =
          [files[n] EXCEPT
              !.last_checked_at = IsoDate(now),
              !.deadline = IF Norm.doc.deadline = EmptyDate
                           THEN files[n].deadline ELSE Norm.doc.deadline]

\* C3: when an accepted record matches a stored file, the upsert sets that
\* file's last_checked_at to the run date and replaces its deadline only by
\* a non-empty new one; every other field, every other file and the set of
\* file names are unchanged.  (A dry run, and an update that fails with
\* WriteError, leave the whole store unchanged.)
C3_UpsertFrame ==
    [][MatchesStored =>
          IF dry_run \/ sink' # sink
          THEN files' = files
          ELSE \E n \in find_existing(files, Norm.slug) : MergedInto(n)]_vars

\* C3 witness: a stored document was merge-updated on a later day than the
\* one it was published on, and holds a deadline
C3_Witness ==
    /\ last.op = "update" /\ last.written
    /\ files[last.path].date_published # IsoDate(now)
    /\ files[last.path].last_checked_at = IsoDate(now)
    /\ files[last.path].deadline # EmptyDate

\* a stored document passes every check of the Validator
ValidStored(doc) ==
    /\ doc.id # <<>> /\ doc.title # <<>> /\ doc.source_name # <<>>
    /\ doc.date_published[1] = "iso"
    /\ doc.last_checked_at[1] = "iso"
    /\ doc.deadline = EmptyDate \/ doc.deadline[1] = "iso"
    /\ doc.source_url[1] = "https"
    /\ doc.type \in {"scholarship", "activity", "job", "grad", "event",
                     "notice"}

\* C6: starting from an empty store, every stored document passes every
\* Validator check, after any sequence of runs.
C6_StoreIsValid == \A n \in DOMAIN files : ValidStored(files[n])

\* C6 witness: in a second run the store holds a document that was updated
\* and one that was not
C6_Witness ==
    /\ run = 2
    /\ \E n, m \in DOMAIN files :
        /\ files[n].last_checked_at # files[n].date_published
        /\ files[m].last_checked_at = files[m].date_published

\* C8: after a fetch failure the run goes on: when it has ended, every
\* source was fetched unless the cap was reached, and the status is 2.
C8_FetchFailureDoesNotBlock ==
    ("FetchError" \in kinds /\ pc \in {"done", "crashed"}) =>
        /\ exit = 2
        /\ fetched = DOMAIN Sources \/ total_written >= limit

\* C10: the count of processed items never exceeds the cap, and once it
\* has reached the cap the run fetches no source and normalizes, writes
\* and updates no record.
C10_GlobalCap ==
    [][/\ Running' => total_written' <= limit'
       /\ (Running /\ total_written >= limit) =>
             /\ files' = files
             /\ sink' = sink
             /\ total_written' = total_written
             /\ seq' = seq
             /\ fetched' = fetched
             /\ ri' = ri]_vars

\* C10 witness: the cap was reached while sources remained
C10_Witness ==
    /\ pc = "source" /\ si <= Len(Sources)
    /\ limit > 0 /\ total_written = limit

\* the directories a and b hold the same file names and, file by file, the
\* same document but for the fields in "free"
SameStore(a, b, free) ==
    /\ DOMAIN a = DOMAIN b
    /\ \A n \in DOMAIN a :
        \A k \in DOMAIN a[n] \ free : a[n][k] = b[n][k]

\* a run has ended normally whose inputs repeat those of the run before it,
\* which ended normally too
SecondRunDone == pc = "done" /\ replay /\ prev.valid

Undisturbed ==
    /\ ~prev.fault /\ "WriteError" \notin kinds
    /\ DateTruthy(since) => since[2] <= prev.now

InRun == Running /\ pc' \in {"source", "record", "done", "crashed"}

\* the ids of the files this run wrote as brand new are pairwise distinct
NewIdsDistinct(dir, names) ==
    \A a \in names, b \in names : a # b => dir[a].id # dir[b].id

\* C11: the id sequence counter is 1 when the loop over the sources starts,
\* never decreases within a run, grows by exactly one on each brand-new
\* write and is left alone by every other step (merge-update, since-filter
\* drop, record or source failure); the ids of the documents one run
\* creates are pairwise distinct.
C11_SeqCounter ==
    [][/\ (~Running /\ Running') => seq' = 1
       /\ InRun => /\ seq' >= seq
                   /\ seq' = IF last'.op = "new" THEN seq + 1 ELSE seq
       /\ NewIdsDistinct(files', brand_new')]_vars

\* one run has written two brand-new documents, and a since-filter drop or
\* a failure in it left the counter alone
C11_Witness ==
    /\ Cardinality(brand_new) >= 2
    /\ seq = 3
    /\ kinds # {}

\* the record the loop is at carries a company or organization value of
\* its own, and its source has a company override
BothPresent ==
    /\ AtRecord
    /\ "company" \in Sources[si].mapping.has
    /\ StrOr(StrOr(recs[ri].organization, recs[ri].company),
             recs[ri].org) # <<>>

\* the payload key the company override goes to, by post category
MappedKey(post_type) ==
    IF post_type = "activity" THEN "organization" ELSE "company"

\* C12: when the source has a company override and the raw record carries
\* a company or organization value too, the payload of an accepted job
\* post (company) and of an accepted activity post (organization) holds
\* the override's value.
C12_MappingOverrides ==
    (BothPresent /\ Norm.ok /\ Norm.doc.type \in {"job", "activity"}) =>
        <<MappedKey(Norm.doc.type), Text(Sources[si].mapping.company)>>
            \in Norm.doc.payload

\* C13: after any sequence of runs against the same output directory, no
\* two stored documents have the same id.
C13_IdsUniqueInStore ==
    \A a \in DOMAIN files, b \in DOMAIN files :
        a # b => files[a].id # files[b].id

====
